---------------------------- MODULE Spec2Model ----------------------------
(***************************************************************************)
(* Remote speech-to-text transport and worker core.                        *)
(*                                                                         *)
(*   server : handle_transcribe / wait_for_result  (mpv-stt-server/server) *)
(*   pool   : WorkerPool / worker_thread / process_job (mpv-stt-server/    *)
(*            worker)                                                      *)
(*   client : RemoteHttpBackend transcribe / cancel_inflight (mpv-stt-     *)
(*            plugin/stt/remote_http)                                      *)
(*                                                                         *)
(* Time is a global clock `now` counted in ticks; every Instant::now() of  *)
(* the code reads it.  Millisecond metrics are counted in the same ticks.  *)
(***************************************************************************)
EXTENDS Integers, Sequences, FiniteSets, TLC

(* ------------------------------ bounds --------------------------------- *)
\* concurrent HTTP requests (handler tasks)
NumHandlers == 2
\* worker threads of the pool (num_workers)
NumWorkers == 2
\* last tick of the clock
MaxTime == 2
\* jobs handed to the pool through its own API (submit_job)
MaxSubmit == 2
\* largest max_retry of the client configurations
MaxRetry == 3
\* cancel_inflight calls
MaxCancels == 2
\* transcribe calls on one backend
MaxCalls == 2
\* last tick of the client's wall clock
MaxWall == 1

Handlers == 1..NumHandlers
\* who built a job: a handler task, or a submit_job call
Owners == 1..(IF NumHandlers > MaxSubmit THEN NumHandlers ELSE MaxSubmit)
Workers == 1..NumWorkers

(* ------------------------- program constants --------------------------- *)
MAX_BODY_SIZE == 52428800
\* Duration::from_secs(120) of wait_for_result, in clock ticks of 120 s
DEADLINE == 1
\* samples of one decoded Opus frame (20 ms at 16 kHz)
FRAME_SIZE == 320
SAMPLE_RATE == 16000
\* a body length well inside the cap
SmallLen == 1024

(* ------------------------------ payloads ------------------------------- *)
(* A byte buffer is modelled by what the decoders see in it.               *)
(*   wav      : a parseable RIFF/WAVE file with the given format           *)
(*   riffjunk : starts with "RIFF", not a parseable WAV                    *)
(*   opus     : ns well-formed [u32_le len][packet] records                *)
(*   opusbad  : Opus records with a length past the end / undecodable      *)
(*   tiny     : 1..3 bytes, not "RIFF"                                     *)
(*   junk     : anything else of 4 bytes or more                           *)
(*   empty    : zero bytes                                                 *)
Payload(kind, ch, rate, bits, ns) ==
    [kind |-> kind, ch |-> ch, rate |-> rate, bits |-> bits, ns |-> ns]

Wav(ch, rate, bits, ns) == Payload("wav", ch, rate, bits, ns)
OpusStream(frames) == Payload("opus", 0, 0, 0, frames)
Other(kind) == Payload(kind, 0, 0, 0, 0)
GoodWav == Wav(1, SAMPLE_RATE, 16, 1)

PlainPayloads ==
    { GoodWav, Wav(2, SAMPLE_RATE, 16, 1), Wav(1, 44100, 16, 1),
      Wav(1, SAMPLE_RATE, 8, 1), Wav(1, SAMPLE_RATE, 16, 0),
      OpusStream(1), Other("opusbad"), Other("riffjunk"), Other("junk"),
      Other("tiny"), Other("empty") }

\* plaintexts that clients also send encrypted
WrappedPayloads == { GoodWav, Wav(2, SAMPLE_RATE, 16, 1), OpusStream(1), Other("empty") }

(* A request body: plaintext bytes, or the C2 envelope of them.            *)
Body(cipher, key, intact, plain, len) ==
    [cipher |-> cipher, key |-> key, intact |-> intact, plain |-> plain, len |-> len]

NaturalLens(cipher, plain) ==
    IF cipher THEN {SmallLen, MAX_BODY_SIZE, MAX_BODY_SIZE + 1}
    ELSE IF plain.kind = "empty" THEN {0}
    ELSE IF plain.kind = "tiny" THEN {3}
    ELSE {SmallLen, MAX_BODY_SIZE, MAX_BODY_SIZE + 1}

ServerKey == "K"
Bodies ==
    { Body(FALSE, "-", TRUE, p, n) : p \in PlainPayloads, n \in {0, 3, SmallLen, MAX_BODY_SIZE, MAX_BODY_SIZE + 1} }
    \cup
    { Body(TRUE, k[1], k[2], p, n) :
        k \in {<<ServerKey, TRUE>>, <<ServerKey, FALSE>>, <<"X", TRUE>>},
        p \in WrappedPayloads, n \in {SmallLen, MAX_BODY_SIZE, MAX_BODY_SIZE + 1} }

WellFormedBodies == { b \in Bodies : b.len \in NaturalLens(b.cipher, b.plain) }

\* EncryptionKey::decrypt: the plaintext, or an error (wrong key, tampered,
\* or bytes that are no envelope at all)
DecryptOk(key, body) == body.cipher /\ body.key = key /\ body.intact
decrypt(key, body) == body.plain
\* EncryptionKey::encrypt
encrypt(key, plain) == [cipher |-> TRUE, key |-> key, plain |-> plain]

\* body.to_vec(): the bytes as the decoders see them when not decrypted
BodyBytes(body) == IF body.cipher THEN Other("junk") ELSE body.plain

(* ------------------------------ headers -------------------------------- *)
\* x-request-id: absent, or text that parses as u64 or does not
RidHeaders == {[present |-> FALSE, digits |-> FALSE, fits |-> FALSE, val |-> 0],
               [present |-> TRUE, digits |-> FALSE, fits |-> FALSE, val |-> 0],
               [present |-> TRUE, digits |-> TRUE, fits |-> FALSE, val |-> 0]}
ValidRid(n) == [present |-> TRUE, digits |-> TRUE, fits |-> TRUE, val |-> n]

\* s.parse::<u64>().ok()
ParseU64Ok(hdr) == hdr.present /\ hdr.digits /\ hdr.fits

\* x-auth-token: absent, or text; hex or not; the bytes it decodes to
ExpectedToken == "T"
TokenHeader(present, hex, nbytes, tok) ==
    [present |-> present, hex |-> hex, nbytes |-> nbytes, tok |-> tok]
TokenHeaders ==
    { TokenHeader(FALSE, FALSE, 0, "-"), TokenHeader(TRUE, FALSE, 0, "-"),
      TokenHeader(TRUE, TRUE, 16, "T16"), TokenHeader(TRUE, TRUE, 32, "U"),
      TokenHeader(TRUE, TRUE, 32, ExpectedToken) }
GoodToken == TokenHeader(TRUE, TRUE, 32, ExpectedToken)

\* Vec::from_hex(s).ok().and_then(try_into [u8;32]).map(== expected).unwrap_or(false)
AuthOk(hdr) == hdr.present /\ hdr.hex /\ hdr.nbytes = 32 /\ hdr.tok = ExpectedToken

EncryptedHeaders == {"absent", "1", "true"}
CompressionHeaders == {"absent", "pcm", "wav", "opus", "flac"}
DurationHeaders == {0, 1000}

Request(rid, dur, token, xenc, comp, body) ==
    [rid |-> rid, dur |-> dur, token |-> token, xenc |-> xenc, comp |-> comp, body |-> body]

\* every request of the admission study
AllRequests ==
    { Request(r, 0, t, e, c, b) :
        r \in RidHeaders \cup {ValidRid(1)}, t \in TokenHeaders,
        e \in EncryptedHeaders, c \in CompressionHeaders, b \in WellFormedBodies }

\* a well-formed request of a client configured like the server
GoodRequest(n, dur) ==
    Request(ValidRid(n), dur, GoodToken, "1", "opus",
            Body(TRUE, ServerKey, TRUE, OpusStream(1), SmallLen))

(* ------------------------- server.rs: decoding ------------------------- *)
\* decompress_opus: Ok(wav) or Err
DecompressOk(p) == p.kind \in {"opus", "tiny", "empty"}
decompress_opus(p) ==
    Wav(1, SAMPLE_RATE, 16, IF p.kind = "opus" THEN p.ns * FRAME_SIZE ELSE 0)

starts_with_RIFF(p) == p.kind \in {"wav", "riffjunk"}
is_empty(p) == p.kind = "empty"

\* validate_wav: "ok" or the error
validate_wav_no_format_check(data) ==
    IF data.kind # "wav" THEN "invalid wav"
    ELSE IF data.ns = 0 THEN "wav contains no samples"
    ELSE "ok"
validate_wav(data) ==
    IF data.kind # "wav" THEN "invalid wav"
    ELSE IF data.ch # 1 \/ data.rate # SAMPLE_RATE \/ data.bits # 16
         THEN "unsupported wav format"
    ELSE IF data.ns = 0 THEN "wav contains no samples"
    ELSE "ok"

(* ---------------------- server.rs: admission --------------------------- *)
(* handle_transcribe up to the job: the checks in the order of the code.   *)
(* The outcome is the rejecting status, or status 0 and the job fields.    *)
NoAudio == Other("none")
Outcome(status, msg, audio, encrypted) ==
    [status |-> status, msg |-> msg, audio |-> audio, encrypted |-> encrypted]
Reject(status, msg) == Outcome(status, msg, NoAudio, FALSE)

Compression(r) == IF r.comp = "absent" THEN "pcm" ELSE r.comp

\* if let Some(expected) = &state.expected_auth_token
AuthRequired_never(c) == FALSE
AuthRequired(c) == c.auth
\* body.len() > MAX_BODY_SIZE
TooLarge_never(len) == FALSE
TooLarge(len) == len > MAX_BODY_SIZE

Decode(compression, audio_bytes, encrypted) ==
    LET decoded ==
          IF compression \in {"pcm", "wav"} THEN <<TRUE, audio_bytes>>
          ELSE IF compression = "opus" THEN
               IF DecompressOk(audio_bytes) THEN <<TRUE, decompress_opus(audio_bytes)>>
               ELSE IF starts_with_RIFF(audio_bytes) THEN <<TRUE, audio_bytes>>
               ELSE <<FALSE, audio_bytes>>
          ELSE <<FALSE, audio_bytes>>
    IN  IF compression \notin {"pcm", "wav", "opus"}
          THEN Reject(400, "unsupported compression")
        ELSE IF ~decoded[1] THEN Reject(400, "opus decode failed")
        ELSE IF is_empty(decoded[2]) THEN Reject(400, "empty audio data")
        ELSE IF validate_wav(decoded[2]) # "ok" THEN Reject(400, validate_wav(decoded[2]))
        ELSE Outcome(0, "", decoded[2], encrypted)

\* handle_transcribe from the x-encrypted header to validate_wav
AdmitPayload(c, r) ==
    LET encrypted == (r.xenc = "1")
    IN  IF encrypted /\ ~c.enc THEN Reject(400, "encryption not enabled")
        ELSE IF encrypted /\ ~DecryptOk(ServerKey, r.body) THEN Reject(400, "decrypt failed")
        ELSE Decode(Compression(r),
                    IF encrypted THEN decrypt(ServerKey, r.body) ELSE BodyBytes(r.body),
                    encrypted)

\* the same checks with the token looked at before x-request-id
Admit_token_before_rid(c, r) ==
    IF TooLarge(r.body.len) THEN Reject(413, "body too large")
    ELSE IF AuthRequired(c) /\ ~AuthOk(r.token) THEN Reject(401, "unauthorized")
    ELSE IF ~ParseU64Ok(r.rid) THEN Reject(400, "missing x-request-id")
    ELSE AdmitPayload(c, r)

Admit(c, r) ==
    IF TooLarge(r.body.len) THEN Reject(413, "body too large")
    ELSE IF ~ParseU64Ok(r.rid) THEN Reject(400, "missing x-request-id")
    ELSE IF AuthRequired(c) /\ ~AuthOk(r.token) THEN Reject(401, "unauthorized")
    ELSE AdmitPayload(c, r)

(* ------------------------------ records -------------------------------- *)
\* the SRT bytes a runner produced: which job they were produced for
Srt(owner, rid) == [owner |-> owner, rid |-> rid]
NoSrt == Srt(0, 0)

\* TranscriptionJob (owner: the handler or submit_job call that built it)
Job(request_id, audio_data, duration_ms, enqueue_at, owner) ==
    [request_id |-> request_id, audio_data |-> audio_data, duration_ms |-> duration_ms,
     enqueue_at |-> enqueue_at, owner |-> owner]
NoJob == Job(0, NoAudio, 0, 0, 0)

\* JobMetrics
JobMetrics(queue_wait_ms, inference_ms, worker_total_ms) ==
    [queue_wait_ms |-> queue_wait_ms, inference_ms |-> inference_ms,
     worker_total_ms |-> worker_total_ms]
NoMetrics == JobMetrics(0, 0, 0)

\* JobResult::Success / JobResult::Error
Success(request_id, srt_data, metrics) ==
    [ok |-> TRUE, request_id |-> request_id, srt_data |-> srt_data, metrics |-> metrics,
     message |-> ""]
Error(request_id, owner, message) ==
    [ok |-> FALSE, request_id |-> request_id, srt_data |-> Srt(owner, request_id),
     metrics |-> NoMetrics, message |-> message]

\* an HTTP response: status, one-line message or SRT body, whether the body
\* is wrapped by the envelope, the metric headers, and (from) the request_id
\* of the JobResult it was built from, 0 when it was built from none
Response(status, msg, srt, enc, metrics, from) ==
    [status |-> status, msg |-> msg, srt |-> srt, enc |-> enc, metrics |-> metrics,
     from |-> from]
NoResponse == Response(0, "", NoSrt, FALSE, NoMetrics, 0)
response_with_status(status, msg) == Response(status, msg, NoSrt, FALSE, NoMetrics, 0)

(* ------------------------------- state --------------------------------- *)
VARIABLES
    cfg,        \* ServerConfig: [auth, enc] (auth_secret non-empty, enable_encryption)
    reqs,       \* the request each handler task is called with
    now,        \* the clock
    hd,         \* per handler task: [pc, deadline, resp]
    rlock,      \* holder of AppState.result_rx's mutex (0: free)
    rstream,    \* the shared result stream (result_stream_rx)
    fwd,        \* the result-forwarding task of bind: "run" | "ended" | "off"
    jobq,       \* the job channel
    jobOpen,    \* some sender of the job channel is alive
    resOpen,    \* the pool's result_rx is alive
    poolres,    \* the pool's result channel
    cancelled,  \* WorkerPool.cancelled
    jlock,      \* holder of job_rx's mutex (0: free)
    wk,         \* per worker thread: its position and locals
    nsub,       \* submit_job calls made so far
    lost,       \* owners of the results a handler dropped as unrelated
    emitted,    \* per job owner: <<Success, Error>> results workers have sent for it
    ccfg,       \* RemoteSttConfig: [max_retry, enc]
    gen,        \* RemoteHttpBackend.cancel_generation
    cl,         \* the transcribe call in progress: its position and locals
    wall,       \* the client's SystemTime
    sent,       \* x-request-id of every HTTP attempt sent so far, in order
    ncalls,     \* transcribe calls started so far
    boot        \* HttpServer::bind: [pc, warmup, warm] (position, config.warmup,
                \* how the warmup transcription ended)

cvars == <<ccfg, gen, cl, wall, sent, ncalls>>
envvars == <<cfg, reqs, now, cvars, boot>>
hvars == <<hd, rlock, rstream, fwd, lost>>
pvars == <<jobq, jobOpen, resOpen, poolres, cancelled, jlock, wk, nsub, emitted>>
svars == <<cfg, reqs, hd, rlock, rstream, fwd, lost,
           jobq, jobOpen, resOpen, poolres, cancelled, jlock, wk, nsub, emitted, boot>>

Handler(pc, deadline, resp) == [pc |-> pc, deadline |-> deadline, resp |-> resp]

\* deqc, chkc: whether the job's request_id was in the cancellation set
\* when the job was dequeued, and when the pre-check ran
\* scratch: the files of the worker's latest process_job call that exist:
\* "wav" (the NamedTempFile) and "srt" (the runner's sibling output)
Worker(pc, worker_start, job, infer_start, inference_ms, queue_wait_ms, srt, deqc, chkc) ==
    [pc |-> pc, worker_start |-> worker_start, job |-> job, infer_start |-> infer_start,
     inference_ms |-> inference_ms, queue_wait_ms |-> queue_wait_ms, srt |-> srt,
     deqc |-> deqc, chkc |-> chkc, scratch |-> {}, runner |-> 0]
\* a worker at the top of its loop at time t: worker_start = Instant::now()
LoopTop(t) == Worker("lock", t, NoJob, 0, 0, 0, NoSrt, FALSE, FALSE)
Stopped == Worker("stopped", 0, NoJob, 0, 0, 0, NoSrt, FALSE, FALSE)

(* ---------------------------- worker.rs -------------------------------- *)
\* is_cancelled
is_cancelled_never(request_id, set) == FALSE
is_cancelled(request_id, set) == request_id \in set

\* worker_start.duration_since(job.enqueue_at): saturates at zero
duration_since(later, earlier) == IF later >= earlier THEN later - earlier ELSE 0

\* the job channel's receiver lives as long as one worker does
JobRxAlive == \E w \in Workers : wk[w].pc # "stopped"
\* the pool's result channel is closed once every worker dropped its sender
ResultTxAlive == \E w \in Workers : wk[w].pc # "stopped"

\* job_rx.lock().await
worker_lock(w) ==
    /\ wk[w].pc = "lock"
    /\ jlock = 0
    /\ jlock' = w
    /\ wk' = [wk EXCEPT ![w].pc = "recv"]
    /\ UNCHANGED <<envvars, hvars, jobq, jobOpen, resOpen, poolres, cancelled, nsub, emitted>>

\* rx.recv() of an unbounded mpsc channel returns once a message is
\* buffered, or None once every sender is gone and nothing is buffered
RecvReady_always(q, open) == TRUE
RecvReady(q, open) == q # <<>> \/ ~open
\* the message recv returns: the oldest one buffered
RecvIndex_newest(q) == Len(q)
RecvIndex(q) == 1
\* (a recv that would leave the message in the channel)
RemoveAt_nothing(q, i) == q
RemoveAt(q, i) == [k \in 1..(Len(q) - 1) |-> IF k < i THEN q[k] ELSE q[k + 1]]

\* rx.recv().await, the guard dropped, and queue_wait_ms computed
worker_recv(w) ==
    /\ wk[w].pc = "recv"
    /\ jlock = w
    /\ RecvReady(jobq, jobOpen)
    /\ jlock' = 0
    /\ IF jobq = <<>>
         THEN /\ wk' = [wk EXCEPT ![w] = [Stopped EXCEPT !.scratch = wk[w].scratch]]
              /\ jobq' = jobq
         ELSE LET job == jobq[RecvIndex(jobq)]
              IN  /\ jobq' = RemoveAt(jobq, RecvIndex(jobq))
                  /\ wk' = [wk EXCEPT ![w].pc = "precheck",
                                      ![w].job = job,
                                      ![w].queue_wait_ms =
                                          duration_since(wk[w].worker_start, job.enqueue_at),
                                      ![w].deqc = job.request_id \in cancelled]
    /\ UNCHANGED <<envvars, hvars, jobOpen, resOpen, poolres, cancelled, nsub, emitted>>

\* what process_job leaves behind when it returns: audio_file (the
\* NamedTempFile) is dropped, which deletes the WAV; nothing removes the
\* sibling .srt the runner wrote
LeftBehind(files) == files \ {"wav"}

\* result_tx.send(result): Err (break) once the pool's receiver is gone,
\* else on to the next iteration of the loop
Send(w, result) ==
    IF resOpen
      THEN /\ poolres' = Append(poolres, result)
           /\ emitted' = [emitted EXCEPT ![wk[w].job.owner] =
                                  IF result.ok THEN <<@[1] + 1, @[2]>> ELSE <<@[1], @[2] + 1>>]
           /\ wk' = [wk EXCEPT ![w] = [LoopTop(now) EXCEPT !.scratch = LeftBehind(wk[w].scratch)]]
      ELSE /\ poolres' = poolres
           /\ emitted' = emitted
           /\ wk' = [wk EXCEPT ![w] = [Stopped EXCEPT !.scratch = LeftBehind(wk[w].scratch)]]

\* if is_cancelled(..) { continue }: the job is dropped, nothing is sent
\* (Discard_reporting: a discard that would report an error result)
Discard_reporting(w) ==
    Send(w, Error(wk[w].job.request_id, wk[w].job.owner, "cancelled"))
Discard(w) ==
    /\ wk' = [wk EXCEPT ![w] = [LoopTop(now) EXCEPT !.scratch = wk[w].scratch]]
    /\ UNCHANGED <<poolres, emitted>>

\* let mut runner = SttRunner::new(config): each worker thread builds its
\* own runner and passes it to process_job (runners are numbered by worker)
RunnerOf_shared(w) == 1
RunnerOf(w) == w

\* if is_cancelled(..) { continue }: back to the loop top;
\* else process_job starts: infer_start = Instant::now()
worker_precheck(w) ==
    /\ wk[w].pc = "precheck"
    /\ IF is_cancelled(wk[w].job.request_id, cancelled)
         THEN Discard(w)
         ELSE /\ wk' = [wk EXCEPT ![w].pc = "run", ![w].infer_start = now,
                                  ![w].chkc = wk[w].job.request_id \in cancelled,
                                  ![w].scratch = {"wav"},
                                  ![w].runner = RunnerOf(w)]
              /\ UNCHANGED <<poolres, emitted>>
    /\ UNCHANGED <<envvars, hvars, jobq, jobOpen, resOpen, cancelled, jlock, nsub>>

\* process_job returns: the runner (or the scratch file I/O) failed, or the
\* SRT was read and inference_ms measured
worker_runner_return(w) ==
    /\ wk[w].pc = "run"
    /\ \E ok \in BOOLEAN :
         IF ok
           THEN /\ wk' = [wk EXCEPT ![w].pc = "post",
                                    ![w].scratch = LeftBehind(wk[w].scratch \cup {"srt"}),
                                    ![w].inference_ms = now - wk[w].infer_start,
                                    ![w].srt = Srt(wk[w].job.owner, wk[w].job.request_id)]
                /\ UNCHANGED <<poolres, emitted>>
           ELSE Send(w, Error(wk[w].job.request_id, wk[w].job.owner, "runner failed"))
    /\ UNCHANGED <<envvars, hvars, jobq, jobOpen, resOpen, cancelled, jlock, nsub>>

\* worker_total_ms = worker_start.elapsed()
worker_total(w) == now - wk[w].worker_start

\* Ok arm: worker_total_ms measured, JobResult::Success built and sent
worker_emit(w) ==
    /\ wk[w].pc = "post"
    /\ Send(w, Success(wk[w].job.request_id, wk[w].srt,
                       JobMetrics(wk[w].queue_wait_ms, wk[w].inference_ms, worker_total(w))))
    /\ UNCHANGED <<envvars, hvars, jobq, jobOpen, resOpen, cancelled, jlock, nsub>>

worker_thread(w) ==
    \/ worker_lock(w)
    \/ worker_recv(w)
    \/ worker_precheck(w)
    \/ worker_runner_return(w)
    \/ worker_emit(w)

(* the pool's own API (not reachable in the server as bind wires it) *)
SubmitIds == 1..MaxSubmit
SubmitAudio == {GoodWav, Other("junk")}

\* WorkerPool::submit_job
submit_job(job) ==
    /\ nsub < MaxSubmit
    /\ JobRxAlive
    /\ jobOpen
    /\ nsub' = nsub + 1
    /\ jobq' = Append(jobq, job)
    /\ UNCHANGED <<envvars, hvars, jobOpen, resOpen, poolres, cancelled, jlock, wk, emitted>>

\* (a cancel that would also take the job off the workers running it)
cancel_request_aborting(request_id) ==
    /\ resOpen
    /\ request_id \notin cancelled
    /\ cancelled' = cancelled \cup {request_id}
    /\ wk' = [w \in Workers |->
                IF wk[w].pc \in {"run", "post"} /\ wk[w].job.request_id = request_id
                  THEN LoopTop(now) ELSE wk[w]]
    /\ UNCHANGED <<envvars, hvars, jobq, jobOpen, resOpen, poolres, jlock, nsub, emitted>>

\* WorkerPool::cancel_request
cancel_request(request_id) ==
    /\ resOpen
    /\ request_id \notin cancelled
    /\ cancelled' = cancelled \cup {request_id}
    /\ UNCHANGED <<envvars, hvars, jobq, jobOpen, resOpen, poolres, jlock, wk, nsub, emitted>>

\* WorkerPool::next_result
next_result ==
    /\ resOpen
    /\ poolres # <<>>
    /\ poolres' = Tail(poolres)
    /\ UNCHANGED <<envvars, hvars, jobq, jobOpen, resOpen, cancelled, jlock, wk, nsub, emitted>>

\* the pool is dropped: its job sender and its result receiver go
drop_pool ==
    /\ resOpen
    /\ resOpen' = FALSE
    /\ jobOpen' = FALSE
    /\ UNCHANGED <<envvars, hvars, jobq, poolres, cancelled, jlock, wk, nsub, emitted>>

(* ---------------------------- server.rs -------------------------------- *)
\* HttpServer::bind, from the return of WorkerPool::new on:
\*   "pool"      the workers are spawned
\*   "warmup"    run_warmup(..).await is pending
\*   "setup"     the warmup is over or was not asked for
\*   "listening" axum serves /transcribe      "failed" bind returned Err
Boot(pc, warmup, warm) == [pc |-> pc, warmup |-> warmup, warm |-> warm]
Booted == Boot("listening", FALSE, "none")

\* requests reach handle_transcribe once axum::serve runs on the listener
Serving(b) == b.pc = "listening"

\* bind goes on to the listener after the match on run_warmup(..).await
ListenReady_early(b) == b.pc \in {"warmup", "setup"}
ListenReady(b) == b.pc = "setup"

\* if config.warmup { match run_warmup(..).await ..
bind_warmup_start ==
    /\ boot.pc = "pool"
    /\ boot' = [boot EXCEPT !.pc = IF boot.warmup THEN "warmup" ELSE "setup"]
    /\ UNCHANGED <<cfg, reqs, now, cvars, hvars, pvars>>

\* warmup_blocking returns Ok or Err (or its task panicked): logged only
bind_warmup_done ==
    /\ boot.pc = "warmup"
    /\ \E ok \in BOOLEAN :
         boot' = [boot EXCEPT !.pc = "setup", !.warm = IF ok THEN "ok" ELSE "err"]
    /\ UNCHANGED <<cfg, reqs, now, cvars, hvars, pvars>>

\* the forwarding task is spawned, the address parsed and the listener
\* bound (either can fail: bind returns Err), axum::serve spawned
bind_listen ==
    /\ ListenReady(boot)
    /\ fwd' = "run"
    /\ \E ok \in BOOLEAN :
         boot' = [boot EXCEPT !.pc = IF ok THEN "listening" ELSE "failed"]
    /\ UNCHANGED <<cfg, reqs, now, cvars, hd, rlock, rstream, lost, pvars>>

\* the task spawned by bind: while let Some(res) = pool.next_result().await
forward ==
    /\ fwd = "run"
    /\ poolres # <<>> \/ ~ResultTxAlive
    /\ IF poolres # <<>>
         THEN /\ rstream' = Append(rstream, Head(poolres))
              /\ poolres' = Tail(poolres)
              /\ fwd' = fwd
         ELSE /\ fwd' = "ended"
              /\ UNCHANGED <<rstream, poolres>>
    /\ UNCHANGED <<envvars, hd, rlock, lost, jobq, jobOpen, resOpen, cancelled, jlock, wk, nsub, emitted>>

\* handle_transcribe up to the first await of wait_for_result
handle_transcribe(h) ==
    /\ hd[h].pc = "new"
    /\ Serving(boot)
    /\ LET o == Admit(cfg, reqs[h])
           job == Job(reqs[h].rid.val, o.audio, reqs[h].dur, now, h)
       IN  IF o.status # 0
             THEN /\ hd' = [hd EXCEPT ![h] = Handler("done", 0, response_with_status(o.status, o.msg))]
                  /\ jobq' = jobq
           ELSE IF ~JobRxAlive
             THEN /\ hd' = [hd EXCEPT ![h] =
                              Handler("done", 0, response_with_status(500, "failed to enqueue job"))]
                  /\ jobq' = jobq
           ELSE /\ jobq' = Append(jobq, job)
                /\ hd' = [hd EXCEPT ![h] = Handler("lock", now + DEADLINE, NoResponse)]
    /\ UNCHANGED <<envvars, rlock, rstream, fwd, lost, jobOpen, resOpen, poolres, cancelled, jlock, wk, nsub, emitted>>

\* state.result_rx.lock().await
wait_for_result_lock(h) ==
    /\ hd[h].pc = "lock"
    /\ rlock = 0
    /\ rlock' = h
    /\ hd' = [hd EXCEPT ![h].pc = "recv"]
    /\ UNCHANGED <<envvars, rstream, fwd, lost, pvars>>

\* the 200 response of handle_transcribe: body re-wrapped iff the request
\* was flagged encrypted and the server has a key
\* (Respond_wrapping_when_keyed: a response wrapped whenever the server has
\* a key, whatever the request was flagged)
Respond_wrapping_when_keyed(h, res) ==
    Response(200, "", res.srt_data, cfg.enc, res.metrics, res.request_id)
Respond(h, res) ==
    Response(200, "", res.srt_data, (reqs[h].xenc = "1") /\ cfg.enc, res.metrics,
             res.request_id)
\* the 500 response built from a JobResult::Error
RespondError(res) == Response(500, res.message, NoSrt, FALSE, NoMetrics, res.request_id)

\* the guard of the match arms of wait_for_result: if id == request_id
MatchesOwn_any(id, request_id) == TRUE
MatchesOwn(id, request_id) == id = request_id

\* rx.next().await and the match on it; the guard is dropped on every path
wait_for_result_next(h) ==
    /\ hd[h].pc = "recv"
    /\ rlock = h
    /\ rstream # <<>> \/ fwd = "ended"
    /\ rlock' = 0
    /\ IF rstream = <<>>
         THEN /\ hd' = [hd EXCEPT ![h].pc = "done",
                                  ![h].resp = response_with_status(500, "result channel closed")]
              /\ UNCHANGED <<rstream, lost>>
         ELSE LET res == Head(rstream)
              IN  /\ rstream' = Tail(rstream)
                  /\ IF MatchesOwn(res.request_id, reqs[h].rid.val)
                       THEN /\ hd' = [hd EXCEPT ![h].pc = "done",
                                        ![h].resp = IF res.ok
                                                      THEN Respond(h, res)
                                                      ELSE RespondError(res)]
                            /\ lost' = lost
                       ELSE /\ hd' = [hd EXCEPT ![h].pc = "sleep"]
                            /\ lost' = lost \cup {res.srt_data.owner}
    /\ UNCHANGED <<envvars, fwd, pvars>>

\* sleep(50 ms) is over; loop top: if Instant::now() > deadline
Expired(h) == now > hd[h].deadline

wait_for_result_wake(h) ==
    /\ hd[h].pc = "sleep"
    /\ IF Expired(h)
         THEN hd' = [hd EXCEPT ![h].pc = "done",
                               ![h].resp = response_with_status(500, "timeout waiting result")]
         ELSE hd' = [hd EXCEPT ![h].pc = "lock"]
    /\ UNCHANGED <<envvars, rlock, rstream, fwd, lost, pvars>>

wait_for_result(h) ==
    \/ wait_for_result_lock(h)
    \/ wait_for_result_next(h)
    \/ wait_for_result_wake(h)

\* time passes
Tick ==
    /\ now < MaxTime
    /\ now' = now + 1
    /\ UNCHANGED <<svars, cvars>>

(* -------------------------- remote_http.rs ----------------------------- *)
\* MpvSttError values; an error of an attempt remembers which attempt
Err(kind, cause, attempt) == [kind |-> kind, cause |-> cause, attempt |-> attempt]
None == Err("None", "", 0)
Ok == Err("Ok", "", 0)
SttCancelled == Err("SttCancelled", "", 0)
Panic == Err("panic", "unwrap on None", 0)

\* how one HTTP attempt can end (send_request, in the order of its checks)
SendOutcomes(c) ==
    {"neterr", "http4xx", "http5xx", "bodyerr", "ok_ws", "ok_srt", "ok_bad"}
    \cup (IF c.enc THEN {"decrypt_err"} ELSE {})

\* the state of one transcribe call; the last five fields are history:
\*   cancelAt, sentAtCancel : where the call was, and how many requests had
\*                            been sent, at the first cancel_inflight during it
\*   sent0                  : how many requests had been sent when it began
\*   tries, sleeps          : loop iterations begun, 500 ms sleeps taken
Client(pc, run_generation, request_id, attempt, last_error, data, ret, wrote, cancelAt) ==
    [pc |-> pc, run_generation |-> run_generation, request_id |-> request_id,
     attempt |-> attempt, last_error |-> last_error, data |-> data, ret |-> ret,
     wrote |-> wrote, cancelAt |-> cancelAt,
     sentAtCancel |-> 0, sent0 |-> 0, tries |-> 0, sleeps |-> 0]
IdleClient == Client("idle", 0, 0, 0, None, "", None, "none", "none")

\* self.cancel_generation.load(Relaxed) != run_generation
Cancelled_never(g, run_generation) == FALSE
Cancelled(g, run_generation) == g # run_generation

\* generate_request_id: nanoseconds of SystemTime::now()
generate_request_id == wall

\* (a return that would leave an .srt file behind whatever the result)
Return_leaving_file(ret) == [cl EXCEPT !.pc = "done", !.ret = ret, !.wrote = "srt"]
\* a call returns
Return(ret) == [cl EXCEPT !.pc = "done", !.ret = ret]

\* let run_generation = self.cancel_generation.load(Relaxed)
\* (Snapshot_zero: a call that would start from generation 0 instead)
Snapshot_zero(g) == 0
Snapshot(g) == g

\* transcribe_impl: run_generation = cancel_generation.load()
transcribe_start ==
    /\ cl.pc \in {"idle", "done"}
    /\ ncalls < MaxCalls
    /\ ncalls' = ncalls + 1
    /\ cl' = [IdleClient EXCEPT !.pc = "compress", !.run_generation = Snapshot(gen),
                                !.sent0 = Len(sent)]
    /\ UNCHANGED <<now, svars, ccfg, gen, wall, sent>>

\* compress_audio returns (an unreadable or non-16k-mono WAV, or empty
\* audio: SttFailed); then request_id = generate_request_id()
transcribe_compress ==
    /\ cl.pc = "compress"
    /\ \E ok \in BOOLEAN :
         cl' = IF ok THEN [cl EXCEPT !.pc = "loop", !.request_id = generate_request_id]
                     ELSE Return(Err("SttFailed", "compress", 0))
    /\ UNCHANGED <<now, svars, ccfg, gen, wall, sent, ncalls>>

\* if attempt + 1 < self.config.max_retry { sleep(500 ms) }
MoreAttempts_always(attempt, max_retry) == TRUE
MoreAttempts(attempt, max_retry) == attempt + 1 < max_retry

\* last_error = Some(e)
KeepError_first(last_error, e) == IF last_error = None THEN e ELSE last_error
KeepError(last_error, e) == e

\* (an Err arm that would give up on a 4xx response)
AttemptFailed_4xx_final(e) ==
    IF e.cause = "http4xx" THEN [cl EXCEPT !.pc = "done", !.ret = e]
    ELSE [cl EXCEPT !.last_error = e,
                    !.attempt = cl.attempt + 1,
                    !.pc = IF cl.attempt + 1 < ccfg.max_retry THEN "sleep" ELSE "loop",
                    !.sleeps = IF cl.attempt + 1 < ccfg.max_retry THEN @ + 1 ELSE @]
\* the Err(e) arm of the match in the retry loop
AttemptFailed(e) ==
    [cl EXCEPT !.last_error = KeepError(cl.last_error, e),
               !.attempt = cl.attempt + 1,
               !.pc = IF MoreAttempts(cl.attempt, ccfg.max_retry) THEN "sleep" ELSE "loop",
               !.sleeps = IF MoreAttempts(cl.attempt, ccfg.max_retry) THEN @ + 1 ELSE @]

\* key.encrypt(&payload)? of send_request can fail only with a key
EncryptOutcomes(c) == IF c.enc THEN BOOLEAN ELSE {TRUE}

\* send_request_with_retry: the head of the for loop, the generation check
\* and send_request up to the HTTP send (the payload is encrypted first);
\* past the loop, Err(last_error.unwrap())
retry_loop_top ==
    /\ cl.pc = "loop"
    /\ IF cl.attempt >= ccfg.max_retry
         THEN /\ cl' = Return(IF cl.last_error = None THEN Panic ELSE cl.last_error)
              /\ sent' = sent
         ELSE IF Cancelled(gen, cl.run_generation)
           THEN /\ cl' = Return(SttCancelled)
                /\ sent' = sent
           ELSE \E enc_ok \in EncryptOutcomes(ccfg) :
                  IF enc_ok
                    THEN /\ cl' = [cl EXCEPT !.pc = "send", !.tries = @ + 1]
                         /\ sent' = Append(sent, cl.request_id)
                    ELSE /\ cl' = [AttemptFailed(Err("CryptoError", "encrypt", cl.attempt))
                                     EXCEPT !.tries = @ + 1]
                         /\ sent' = sent
    /\ UNCHANGED <<now, svars, ccfg, gen, wall, ncalls>>

\* what send_request returns for an outcome of the HTTP exchange
SendResult(outcome, g, run_generation, attempt) ==
    IF outcome = "neterr" THEN Err("SttFailed", "HTTP send failed", attempt)
    ELSE IF Cancelled(g, run_generation) THEN SttCancelled
    ELSE IF outcome \in {"http4xx", "http5xx"} THEN Err("SttFailed", outcome, attempt)
    ELSE IF outcome = "bodyerr" THEN Err("SttFailed", "HTTP body read failed", attempt)
    ELSE IF outcome = "decrypt_err" THEN Err("CryptoError", "decrypt", attempt)
    ELSE Ok

\* the HTTP exchange of an attempt is over; the match in the retry loop
send_request ==
    /\ cl.pc = "send"
    /\ \E outcome \in SendOutcomes(ccfg) :
         LET r == SendResult(outcome, gen, cl.run_generation, cl.attempt)
         IN  cl' = IF r = Ok
                     THEN [cl EXCEPT !.pc = "final", !.data = outcome]
                     ELSE AttemptFailed(r)
    /\ UNCHANGED <<now, svars, ccfg, gen, wall, sent, ncalls>>

\* std::thread::sleep(500 ms) is over
retry_sleep_done ==
    /\ cl.pc = "sleep"
    /\ cl' = [cl EXCEPT !.pc = "loop"]
    /\ UNCHANGED <<now, svars, ccfg, gen, wall, sent, ncalls>>

\* transcribe_impl after send_request_with_retry returned Ok: the last
\* generation check
transcribe_final_check ==
    /\ cl.pc = "final"
    /\ cl' = IF Cancelled(gen, cl.run_generation) THEN Return(SttCancelled)
                                                  ELSE [cl EXCEPT !.pc = "save"]
    /\ UNCHANGED <<now, svars, ccfg, gen, wall, sent, ncalls>>

\* an all-whitespace body: an empty SRT file; else parse_content and save
transcribe_save ==
    /\ cl.pc = "save"
    /\ IF cl.data = "ok_bad"
         THEN cl' = Return(Err("InvalidSrt", "parse", 0))
         ELSE \E io_ok \in BOOLEAN :
                cl' = IF ~io_ok THEN Return(Err("Io", "save", 0))
                      ELSE [Return(Ok) EXCEPT !.wrote = IF cl.data = "ok_ws" THEN "empty" ELSE "srt"]
    /\ UNCHANGED <<now, svars, ccfg, gen, wall, sent, ncalls>>

\* cancel_inflight: cancel_generation.fetch_add(1)
\* (cancelAt: where the call in progress was at its first cancel)
cancel_inflight ==
    /\ gen < MaxCancels
    /\ gen' = gen + 1
    /\ cl' = IF cl.pc \notin {"idle", "done"} /\ cl.cancelAt = "none"
               THEN [cl EXCEPT !.cancelAt = cl.pc, !.sentAtCancel = Len(sent)] ELSE cl
    /\ UNCHANGED <<now, svars, ccfg, wall, sent, ncalls>>

\* the wall clock advances
wall_tick ==
    /\ wall < MaxWall
    /\ wall' = wall + 1
    /\ UNCHANGED <<now, svars, ccfg, gen, cl, sent, ncalls>>

(* --------------------------- specifications ---------------------------- *)
vars == <<now, svars, cvars>>

InitClientIdle ==
    /\ ccfg = [max_retry |-> 1, enc |-> TRUE]
    /\ gen = 0
    /\ cl = IdleClient
    /\ wall = 0
    /\ sent = <<>>
    /\ ncalls = 0

InitPool ==
    /\ jobq = <<>>
    /\ jobOpen = TRUE
    /\ resOpen = TRUE
    /\ poolres = <<>>
    /\ cancelled = {}
    /\ jlock = 0
    /\ wk = [w \in Workers |-> LoopTop(0)]
    /\ nsub = 0
    /\ emitted = [o \in Owners |-> <<0, 0>>]
    /\ now = 0

\* the server of HttpServer::bind, auth and encryption configured, every
\* request well-formed and the request ids pairwise distinct: the
\* concurrency of handlers, workers and results
Init ==
    /\ InitPool
    /\ boot = Booted
    /\ cfg = [auth |-> TRUE, enc |-> TRUE]
    /\ reqs = [h \in Handlers |-> GoodRequest(h, 0)]
    /\ hd = [h \in Handlers |-> Handler("new", 0, NoResponse)]
    /\ rlock = 0
    /\ rstream = <<>>
    /\ fwd = "run"
    /\ lost = {}
    /\ InitClientIdle

\* (a server in which some task would also call cancel_request)
Next_with_cancel ==
    \/ \E h \in Handlers : handle_transcribe(h)
    \/ \E h \in Handlers : wait_for_result(h)
    \/ \E w \in Workers : worker_thread(w)
    \/ forward
    \/ Tick
    \/ \E h \in Handlers : cancel_request(reqs[h].rid.val)

\* the tasks bind leaves running: the axum handlers, the workers of the
\* pool and the forwarder that owns the pool; none of them holds a path to
\* WorkerPool::cancel_request
Next ==
    \/ \E h \in Handlers : handle_transcribe(h)
    \/ \E h \in Handlers : wait_for_result(h)
    \/ \E w \in Workers : worker_thread(w)
    \/ forward
    \/ Tick

Spec == Init /\ [][Next]_vars

\* the same server with a caller of WorkerPool::cancel_request beside it
\* (the pool's API offers it; no task that bind spawns calls it)
NextCancel ==
    \/ Next
    \/ \E h \in Handlers : cancel_request(reqs[h].rid.val)

SpecCancel == Init /\ [][NextCancel]_vars

\* the same server, one request of any shape under any configuration: the
\* admission checks of handle_transcribe
InitAdmit ==
    /\ InitPool
    /\ boot = Booted
    /\ cfg \in [auth : BOOLEAN, enc : BOOLEAN]
    /\ \E r \in AllRequests : reqs = [h \in Handlers |-> r]
    /\ hd = [h \in Handlers |-> Handler(IF h = 1 THEN "new" ELSE "off", 0, NoResponse)]
    /\ rlock = 0
    /\ rstream = <<>>
    /\ fwd = "run"
    /\ lost = {}
    /\ InitClientIdle

NextAdmit ==
    \/ \E h \in Handlers : handle_transcribe(h)
    \/ \E h \in Handlers : wait_for_result_lock(h)
    \/ \E h \in Handlers : wait_for_result_next(h)
    \/ \E w \in Workers : worker_thread(w)
    \/ forward

SpecAdmit == InitAdmit /\ [][NextAdmit]_vars

\* HttpServer::bind from the return of WorkerPool::new on, with and without
\* warmup, and one request waiting to be served
InitBoot ==
    /\ InitPool
    /\ boot \in {Boot("pool", w, "none") : w \in BOOLEAN}
    /\ cfg = [auth |-> TRUE, enc |-> TRUE]
    /\ reqs = [h \in Handlers |-> GoodRequest(h, 0)]
    /\ hd = [h \in Handlers |-> Handler("new", 0, NoResponse)]
    /\ rlock = 0
    /\ rstream = <<>>
    /\ fwd = "off"
    /\ lost = {}
    /\ InitClientIdle

NextBoot ==
    \/ bind_warmup_start
    \/ bind_warmup_done
    \/ bind_listen
    \/ Next

SpecBoot == InitBoot /\ [][NextBoot]_vars

\* the worker pool driven through its own API: submit_job, cancel_request,
\* next_result, and the pool being dropped
ServerOff ==
    /\ InitPool
    /\ boot = Booted
    /\ cfg = [auth |-> TRUE, enc |-> TRUE]
    /\ reqs = [h \in Handlers |-> GoodRequest(h, 0)]
    /\ hd = [h \in Handlers |-> Handler("off", 0, NoResponse)]
    /\ rlock = 0
    /\ rstream = <<>>
    /\ fwd = "off"
    /\ lost = {}

InitPoolOnly == ServerOff /\ InitClientIdle

NextPool ==
    \/ \E r \in SubmitIds, a \in SubmitAudio : submit_job(Job(r, a, 0, now, nsub + 1))
    \/ \E r \in SubmitIds : cancel_request(r)
    \/ next_result
    \/ drop_pool
    \/ \E w \in Workers : worker_thread(w)
    \/ Tick

SpecPool == InitPoolOnly /\ [][NextPool]_vars

\* the same, with every worker thread scheduled (spawn_blocking gives each
\* its own OS thread) and the runner returning from every call
SpecPoolFair ==
    InitPoolOnly /\ [][NextPool]_vars /\ \A w \in Workers : WF_vars(worker_thread(w))

\* one RemoteHttpBackend: transcribe calls one after the other, and
\* cancel_inflight from another thread at any moment
InitClient ==
    /\ ServerOff
    /\ ccfg \in [max_retry : 0..MaxRetry, enc : BOOLEAN]
    /\ gen = 0
    /\ cl = IdleClient
    /\ wall = 0
    /\ sent = <<>>
    /\ ncalls = 0

NextClient ==
    \/ transcribe_start
    \/ transcribe_compress
    \/ retry_loop_top
    \/ send_request
    \/ retry_sleep_done
    \/ transcribe_final_check
    \/ transcribe_save
    \/ cancel_inflight
    \/ wall_tick

SpecClient == InitClient /\ [][NextClient]_vars

(* ------------------------------ claims --------------------------------- *)
\* the job a handler enqueued is in the queue, on a worker, or answered
Enqueued(h) ==
    \/ \E i \in 1..Len(jobq) : jobq[i].owner = h
    \/ \E w \in Workers : wk[w].job.owner = h
    \/ emitted[h] # <<0, 0>>

Returned(h) == hd[h].pc = "done"
Waiting(h) == hd[h].pc \in {"lock", "recv", "sleep"}
OwnRid(h) == reqs[h].rid.val

\* C1: a handler waiting for request id R builds its response (the 200 with
\* the SRT, or the 500 with the error message) only from a JobResult whose
\* request_id is R; the SRT it returns was produced for its own job.
C1_OwnResultOnly ==
    \A h \in Handlers :
        (Returned(h) /\ hd[h].resp.from # 0) =>
            /\ hd[h].resp.from = OwnRid(h)
            /\ hd[h].resp.status = 200 =>
                 (hd[h].resp.srt.rid = OwnRid(h) /\ hd[h].resp.srt.owner = h)

\* two concurrent requests were both answered 200
C1_Witness ==
    \A h \in Handlers : Returned(h) /\ hd[h].resp.status = 200

\* the JobResult of handler h's job is still on its way to the handlers
ResultInFlight(h) ==
    \/ \E i \in 1..Len(poolres) : poolres[i].request_id = OwnRid(h)
    \/ \E i \in 1..Len(rstream) : rstream[i].request_id = OwnRid(h)

\* C2: among concurrent admitted requests with distinct request_ids, the
\* result of a job that succeeded in a worker is not lost to another handler:
\* it is still on its way, or its own handler returned it as 200 with the SRT
\* of its own job (or had already given up on its deadline).
C2_NoResultLostToAnotherHandler ==
    \A h \in Handlers :
        emitted[h] = <<1, 0>> =>
            \/ ResultInFlight(h)
            \/ Returned(h) /\ hd[h].resp.status = 200 /\ hd[h].resp.srt.owner = h
            \/ Returned(h) /\ hd[h].resp.msg = "timeout waiting result"

\* C3: a worker is inside process_job (the runner) only with a job whose
\* request_id was not in the cancellation set at the pre-check, nor when the
\* job was dequeued.
C3_NoRunnerForCancelled ==
    \A w \in Workers :
        wk[w].pc \in {"run", "post"} => (~wk[w].chkc /\ ~wk[w].deqc)

\* one job was submitted, cancelled and dequeued, and it left no result
C3_Witness ==
    /\ nsub = 1 /\ resOpen /\ jobq = <<>>
    /\ cancelled # {}
    /\ \A w \in Workers : wk[w].pc \in {"lock", "recv"}
    /\ \A o \in Owners : emitted[o] = <<0, 0>>

\* C4 (as stated): a call during which cancel_inflight was invoked, anywhere
\* after the generation snapshot, writes no output file.
C4_NoFileAfterAnyCancel ==
    cl.wrote # "none" => cl.cancelAt = "none"

\* C4 (amended): a call during which cancel_inflight was invoked between the
\* generation snapshot and the final generation check of transcribe_impl
\* writes no output file.
C4_NoFileAfterCancelBeforeFinalCheck ==
    cl.wrote # "none" => cl.cancelAt \in {"none", "save"}

\* the response had arrived when the cancel came, just before the final
\* check; the call returned SttCancelled without a file
C4_Witness ==
    /\ cl.pc = "done" /\ cl.cancelAt = "final"
    /\ cl.ret = SttCancelled /\ cl.wrote = "none"

\* C5: a call whose first cancel_inflight came while an HTTP send was in
\* flight returns SttCancelled and writes no file.
C5_CancelDuringSendReturnsCancelled ==
    (cl.pc = "done" /\ cl.cancelAt = "send") =>
        (cl.ret = SttCancelled /\ cl.wrote = "none")

\* nothing is left that could produce another result for the stream
NoResultWillCome ==
    /\ jobq = <<>> /\ poolres = <<>> /\ rstream = <<>>
    /\ \A w \in Workers : wk[w].pc \in {"lock", "recv"}
    /\ \A h \in Handlers : hd[h].pc # "new"

\* C6: a handler whose deadline has passed and for which no result will
\* arrive is not stuck: it has returned, or it can take its next step
\* (towards the 500 of the timeout).
C6_DeadlineBoundsHandler ==
    \A h \in Handlers :
        (Waiting(h) /\ now > hd[h].deadline /\ NoResultWillCome) =>
            ENABLED wait_for_result(h)

\* 16 kHz, mono, 16-bit WAV with at least one sample
Valid16kMonoWav(a) ==
    a.kind = "wav" /\ a.ch = 1 /\ a.rate = 16000 /\ a.bits = 16 /\ a.ns >= 1

\* C7: every job in the job queue or on a worker carries audio that is a
\* 16 kHz mono 16-bit WAV with at least one sample.
C7_RunnerGetsValidWav ==
    /\ \A i \in 1..Len(jobq) : Valid16kMonoWav(jobq[i].audio_data)
    /\ \A w \in Workers :
         wk[w].pc \in {"precheck", "run", "post"} => Valid16kMonoWav(wk[w].job.audio_data)

\* the runner is invoked on a body that was labelled opus: decoded from
\* Opus frames, or RIFF bytes passed through
C7_Witness ==
    /\ \E w \in Workers : wk[w].pc = "run"
    /\ reqs[1].comp = "opus"
    /\ reqs[1].xenc # "1"
    /\ reqs[1].body.plain.kind = "wav"

\* every JobResult::Success in flight, and every 200 built from one
SuccessMetrics ==
    { poolres[i].metrics : i \in {j \in 1..Len(poolres) : poolres[j].ok} }
    \cup { rstream[i].metrics : i \in {j \in 1..Len(rstream) : rstream[j].ok} }
    \cup { hd[h].resp.metrics : h \in {g \in Handlers : hd[g].resp.status = 200} }

\* C8: every Success satisfies worker_total_ms >= queue_wait_ms + inference_ms.
C8_WorkerTotalCoversQueueAndInference ==
    \A m \in SuccessMetrics : m.worker_total_ms >= m.queue_wait_ms + m.inference_ms

\* the request of the admission study and what became of it
TheRequest == reqs[1]
Handled == hd[1].pc # "new"
Status == hd[1].resp.status
InCap(r) == r.body.len <= 52428800
RidValid(r) == r.rid.present /\ r.rid.digits /\ r.rid.fits
TokenRight(r) == r.token = TokenHeader(TRUE, TRUE, 32, ExpectedToken)
\* a body that is, or decodes to, a valid WAV under its own labels
PayloadValid(c, r) ==
    LET bytes == IF r.xenc = "1" /\ r.body.cipher /\ r.body.key = ServerKey /\ r.body.intact
                   THEN r.body.plain
                 ELSE IF r.xenc # "1" /\ ~r.body.cipher THEN r.body.plain
                 ELSE Other("junk")
    IN  /\ r.xenc = "1" => c.enc
        /\ \/ r.comp \in {"absent", "pcm", "wav", "opus"} /\ Valid16kMonoWav(bytes)
           \/ r.comp = "opus" /\ bytes.kind = "opus" /\ bytes.ns >= 1

\* C9: with an auth secret configured, a request within the size cap and
\* with a valid x-request-id is answered 401 and enqueues no job when its
\* token is absent, not the hex of 32 bytes, or not the expected one; with
\* the expected token and a valid payload it is admitted and enqueued.
C9_AuthGate ==
    (cfg.auth /\ Handled /\ InCap(TheRequest) /\ RidValid(TheRequest)) =>
        /\ ~TokenRight(TheRequest) => (Returned(1) /\ Status = 401 /\ ~Enqueued(1))
        /\ (TokenRight(TheRequest) /\ PayloadValid(cfg, TheRequest)) =>
              (Enqueued(1) /\ Status \in {0, 200, 500})

\* a token that is hex, but of 16 bytes, was refused
C9_Witness ==
    /\ cfg.auth /\ Handled /\ InCap(TheRequest) /\ RidValid(TheRequest)
    /\ TheRequest.token.hex /\ TheRequest.token.nbytes = 16
    /\ PayloadValid(cfg, TheRequest)
    /\ Status = 401

\* C10: a request whose body is larger than 50 MiB is answered 413 and
\* enqueues no job, whatever its headers are.
C10_SizeCapFirst ==
    (Handled /\ ~InCap(TheRequest)) => (Returned(1) /\ Status = 413 /\ ~Enqueued(1))

\* an oversized body without x-request-id and with a wrong token, under auth
C10_Witness ==
    /\ cfg.auth /\ Handled /\ ~InCap(TheRequest)
    /\ ~TheRequest.rid.present /\ ~TokenRight(TheRequest)
    /\ Status = 413

\* HTTP requests the call in progress (or the last call) has sent
SentByCall == Len(sent) - cl.sent0

\* C11 (as stated): a call sends at most max_retry HTTP attempts, and every
\* 500 ms sleep it takes lies between two attempts: when the call has
\* returned, it slept fewer times than it made attempts.
C11_EverySleepBetweenTwoAttempts ==
    /\ SentByCall <= ccfg.max_retry
    /\ (cl.pc = "done" /\ cl.sleeps > 0) => cl.sleeps < cl.tries

\* C11 (amended): a call sends at most max_retry HTTP attempts; it sleeps
\* only after a failed attempt that is not the max_retry-th; and when no
\* cancel_inflight came during the call, every sleep was followed by
\* another attempt.
C11_SleepOnlyAfterNonFinalFailure ==
    /\ SentByCall <= ccfg.max_retry
    /\ cl.tries <= ccfg.max_retry
    /\ cl.sleeps <= cl.tries
    /\ cl.sleeps > 0 => cl.sleeps < ccfg.max_retry
    /\ cl.pc = "sleep" => (cl.last_error # None /\ cl.attempt < ccfg.max_retry)
    /\ (cl.pc = "done" /\ cl.cancelAt = "none" /\ cl.sleeps > 0) => cl.sleeps < cl.tries

\* three attempts failed, with a sleep after the first and the second only
C11_Witness ==
    /\ cl.pc = "done" /\ cl.cancelAt = "none"
    /\ ccfg.max_retry = 3 /\ SentByCall = 3 /\ cl.tries = 3 /\ cl.sleeps = 2

\* every attempt of the call failed, and no cancel came during the call
AllAttemptsFailed ==
    /\ cl.pc = "done" /\ cl.cancelAt = "none"
    /\ cl.tries >= 1 /\ cl.data = ""

\* C12: when every attempt of a call failed and no cancel intervened, the
\* call returns the error of the last attempt made.
C12_ReturnsLastError ==
    AllAttemptsFailed =>
        /\ cl.ret = cl.last_error
        /\ cl.ret.kind \in {"SttFailed", "CryptoError"}
        /\ cl.tries = ccfg.max_retry
        /\ cl.ret.attempt = cl.tries - 1

\* three failed attempts; the error returned is the third one's
C12_Witness ==
    /\ AllAttemptsFailed
    /\ cl.tries = 3 /\ cl.ret.attempt = 2 /\ cl.ret.cause = "http5xx"

\* C13: no HTTP attempt is in flight after an attempt of the same call
\* ended with a cryptographic error.
C13_CryptoErrorEndsRetry ==
    ~(cl.pc = "send" /\ cl.last_error.kind = "CryptoError")

\* C14: after a cancel_inflight that came while an attempt was in flight,
\* or during the sleep after a failed attempt, the call sends no further
\* HTTP request.
C14_CancelPreemptsRetry ==
    cl.cancelAt \in {"send", "sleep"} => Len(sent) = cl.sentAtCancel

\* cancelled during the sleep after a failed attempt, with attempts left:
\* the call returned SttCancelled
C14_Witness ==
    /\ cl.pc = "done" /\ cl.cancelAt = "sleep"
    /\ cl.tries < ccfg.max_retry
    /\ cl.ret = SttCancelled

\* C20: no two HTTP attempts of one transcribe call (a first try and its
\* retries) carry the same x-request-id.
C20_RequestIdUniquePerAttempt ==
    \A i, j \in (cl.sent0 + 1)..Len(sent) : i # j => sent[i] # sent[j]

\* C15: jobs leave the job queue in the order they entered it, whatever
\* the number of workers: at every moment the jobs still queued are the most
\* recently submitted ones, in submission order, so a job is dequeued before
\* every job submitted after it.
C15_FifoDispatch ==
    \A i \in 1..Len(jobq) : jobq[i].owner = nsub - Len(jobq) + i

\* the first of two submitted jobs is on a worker, the second still queued
C15_Witness ==
    /\ nsub = 2 /\ Len(jobq) = 1 /\ jobq[1].owner = 2
    /\ \E w \in Workers : wk[w].job.owner = 1

\* a worker is inside process_job, or between its return and the send
Processing(w) == wk[w].pc \in {"run", "post"}
Results(o) == emitted[o][1] + emitted[o][2]

\* C16: a cancel_request changes no worker and no result; and a worker that
\* holds a job past the pre-check, cancelled or not, leaves it only by
\* sending exactly one JobResult with the job's request_id (or by stopping
\* because the result channel is closed).
C16_CancelAfterPrecheckHasNoEffect ==
    [][ /\ cancelled' # cancelled =>
              (wk' = wk /\ poolres' = poolres /\ emitted' = emitted /\ jobq' = jobq)
        /\ \A w \in Workers :
              (Processing(w) /\ wk'[w] # wk[w]) =>
                  \/ wk'[w].pc = "post" /\ wk'[w].job = wk[w].job
                  \/ /\ Len(poolres') = Len(poolres) + 1
                     /\ SubSeq(poolres', 1, Len(poolres)) = poolres
                     /\ poolres'[Len(poolres')].request_id = wk[w].job.request_id
                     /\ LET o == wk[w].job.owner
                        IN  emitted'[o][1] + emitted'[o][2] = Results(o) + 1
                     /\ wk'[w].pc = "lock"
                  \/ ~resOpen /\ wk'[w].pc = "stopped" /\ poolres' = poolres
      ]_vars

\* the request_id of a job was cancelled while the job was past the
\* pre-check; the runner has returned and the Success is about to be sent
C16_Witness ==
    \E w \in Workers :
        wk[w].pc = "post" /\ wk[w].job.request_id \in cancelled /\ ~wk[w].chkc

\* C17: a worker that is back at the top of its loop has none of the scratch
\* files of the job it finished: neither the temporary WAV nor the .srt.
C17_NoScratchLeftAtIdle ==
    \A w \in Workers : wk[w].pc \in {"lock", "recv"} => wk[w].scratch = {}

\* C19 (as stated): a worker stops only once the closed job queue has been
\* emptied.
C19_StopsOnlyAfterDrainingQueue ==
    \A w \in Workers : wk[w].pc = "stopped" => (~jobOpen /\ jobq = <<>>)

\* C19 (amended): after the job queue is closed every worker eventually
\* stops; a worker stops only when recv finds the job queue closed and
\* empty, or when sending a result fails because the result channel is
\* closed; it never stops while both channels are open.
C19_StopsOnlyOnClosedChannel ==
    /\ [][ \A w \in Workers :
            (wk'[w].pc = "stopped" /\ wk[w].pc # "stopped") =>
                /\ ~jobOpen \/ ~resOpen
                /\ \/ wk[w].pc = "recv" /\ ~jobOpen /\ jobq = <<>>
                   \/ Processing(w) /\ ~resOpen
        ]_vars
    /\ (~jobOpen) ~> (\A w \in Workers : wk[w].pc = "stopped")

\* every worker has stopped: one found the closed queue empty after the
\* queued job had been taken
C19_Witness ==
    /\ nsub >= 1 /\ ~jobOpen /\ jobq = <<>>
    /\ \A w \in Workers : wk[w].pc = "stopped"

\* C18: a request is handled only by a listening server, and with
\* warmup=true the listener is bound only after the warmup transcription
\* has ended, with Ok or with an error; after a failed warmup bind still
\* goes on to bind the listener.
C18_WarmupBeforeServing ==
    /\ \A h \in Handlers : hd[h].pc # "new" => boot.pc = "listening"
    /\ (boot.pc \in {"listening", "failed"} /\ boot.warmup) => boot.warm \in {"ok", "err"}
    /\ boot.pc = "warmup" => (boot.warm = "none" /\ fwd = "off")
    /\ (boot.pc = "setup" /\ boot.warm = "err") => ENABLED bind_listen

\* the warmup failed, the server bound its listener and answered a request
C18_Witness ==
    /\ boot = Boot("listening", TRUE, "err")
    /\ \E h \in Handlers : hd[h].pc = "done" /\ hd[h].resp.status = 200

(* ------------------------- C21: order of the checks -------------------- *)
\* the first check of the stated order that a request fails, or "none";
\* b: the bytes the decoders see, a: the audio they decode to
FirstFailingCheck(c, r) ==
    LET b == IF r.xenc = "1" THEN r.body.plain
             ELSE IF r.body.cipher THEN Other("junk")
             ELSE r.body.plain
        a == IF r.comp = "opus" /\ b.kind = "opus" THEN Wav(1, 16000, 16, b.ns * 320)
             ELSE IF r.comp = "opus" /\ b.kind \in {"tiny", "empty"} THEN Wav(1, 16000, 16, 0)
             ELSE b
    IN  IF ~InCap(r) THEN "size"
        ELSE IF ~RidValid(r) THEN "request-id"
        ELSE IF c.auth /\ ~TokenRight(r) THEN "token"
        ELSE IF r.xenc = "1" /\ ~(c.enc /\ r.body.cipher /\ r.body.key = ServerKey /\ r.body.intact)
             THEN "encryption"
        ELSE IF \/ r.comp \notin {"absent", "pcm", "wav", "opus"}
                \/ r.comp = "opus" /\ b.kind \in {"opusbad", "junk"}
             THEN "decode"
        ELSE IF a.kind = "empty" THEN "empty"
        ELSE IF ~Valid16kMonoWav(a) THEN "wav"
        ELSE "none"

CheckMessages(check) ==
    IF check = "size" THEN {"body too large"}
    ELSE IF check = "request-id" THEN {"missing x-request-id"}
    ELSE IF check = "token" THEN {"unauthorized"}
    ELSE IF check = "encryption" THEN {"encryption not enabled", "decrypt failed"}
    ELSE IF check = "decode" THEN {"unsupported compression", "opus decode failed"}
    ELSE IF check = "empty" THEN {"empty audio data"}
    ELSE {"invalid wav", "unsupported wav format", "wav contains no samples"}

\* C21: handle_transcribe answers a request with the status and the message
\* of the first check it fails in the order body size cap, x-request-id,
\* auth token, encryption flag and decrypt, compression and decode,
\* non-empty audio, WAV validation; a request that fails a check is
\* answered at once and leaves the job queue as it was.
C21_FirstFailingCheckDecides ==
    (Handled /\ FirstFailingCheck(cfg, TheRequest) # "none") =>
        /\ Returned(1)
        /\ Status = ( IF FirstFailingCheck(cfg, TheRequest) = "size" THEN 413
                      ELSE IF FirstFailingCheck(cfg, TheRequest) = "token" THEN 401
                      ELSE 400 )
        /\ hd[1].resp.msg \in CheckMessages(FirstFailingCheck(cfg, TheRequest))
        /\ jobq = <<>> /\ ~Enqueued(1)

\* under auth, a request within the cap that lacks x-request-id and carries
\* a wrong token was answered 400, not 401
C21_Witness ==
    /\ cfg.auth /\ Handled /\ InCap(TheRequest)
    /\ ~TheRequest.rid.present /\ ~TokenRight(TheRequest)
    /\ Status = 400 /\ hd[1].resp.msg = "missing x-request-id"
    /\ jobq = <<>>

(* ------------------------- C22: the retry loop returns ----------------- *)
\* C22 (as stated): for every max_retry >= 0, send_request_with_retry
\* returns a Result (Ok, SttCancelled or the last attempt's error); no call
\* ends in the unwrap of an absent last_error.
C22_RetryLoopAlwaysReturnsResult ==
    cl.pc = "done" => cl.ret # Panic

(* ------------------------- C23: one result per job --------------------- *)
\* where the job of owner o is: positions of the job queue holding it,
\* workers holding it, and JobResults sent for it
Places(o) ==
    Cardinality({i \in 1..Len(jobq) : jobq[i].owner = o})
    + Cardinality({w \in Workers : wk[w].job.owner = o})
    + Results(o)

\* C23: a job a handler enqueued is, at every moment, in exactly one place:
\* once in the job queue, or on exactly one worker, or answered by exactly
\* one JobResult; no job is on two workers or answered twice, and every
\* JobResult carries the request_id of the job it was produced for.
C23_OneDequeueOneResult ==
    /\ \A h \in Handlers : Places(h) = (IF hd[h].pc = "new" THEN 0 ELSE 1)
    /\ \A h \in Handlers : Results(h) <= 1
    /\ \A i \in 1..Len(poolres) : poolres[i].request_id = OwnRid(poolres[i].srt_data.owner)
    /\ \A i \in 1..Len(rstream) : rstream[i].request_id = OwnRid(rstream[i].srt_data.owner)

\* every handler's job was dequeued and answered by one JobResult, and the
\* results are still in the result channels
C23_Witness ==
    /\ \A h \in Handlers : Results(h) = 1
    /\ Len(poolres) + Len(rstream) = NumHandlers
    /\ jobq = <<>> /\ \A w \in Workers : wk[w].job = NoJob

(* ------------------------- C24: a discarded job ------------------------ *)
\* the job of handler h was enqueued and is gone without a JobResult
Discarded(h) == hd[h].pc # "new" /\ Places(h) = 0

\* C24: the pre-check that discards a cancelled job sends no JobResult; the
\* handler whose job was discarded finds no result with its request id in
\* the result channels, and if it has returned, it returned the 500 of the
\* deadline or of the closed result channel, built from no JobResult.
C24_DiscardedJobHasNoResult ==
    /\ [][\A w \in Workers :
            (wk[w].pc = "precheck" /\ wk'[w].pc = "lock") =>
                (poolres' = poolres /\ rstream' = rstream /\ emitted' = emitted)]_vars
    /\ [](\A h \in Handlers : Discarded(h) =>
            /\ OwnRid(h) \in cancelled
            /\ \A i \in 1..Len(poolres) : poolres[i].request_id # OwnRid(h)
            /\ \A i \in 1..Len(rstream) : rstream[i].request_id # OwnRid(h)
            /\ Returned(h) =>
                 /\ hd[h].resp.status = 500 /\ hd[h].resp.from = 0
                 /\ hd[h].resp.msg \in {"timeout waiting result", "result channel closed"})

\* a handler's job was cancelled in the queue and discarded by a worker; the
\* handler took another job's result off the stream, slept, and returned at
\* its deadline
C24_Witness ==
    \E h \in Handlers :
        /\ Discarded(h) /\ Returned(h)
        /\ hd[h].resp.msg = "timeout waiting result"
        /\ \E g \in Handlers : g # h /\ Results(g) = 1

(* ------------------------- C25: non-2xx responses ---------------------- *)
\* C25: an attempt that ends with a non-2xx status, 4xx or 5xx, is treated
\* by the retry loop as one that ends with a network error: its error is an
\* SttFailed kept as last_error, a 500 ms sleep follows iff it was not the
\* max_retry-th attempt, and after the sleep the loop, unless cancelled,
\* makes another attempt; no attempt, whatever its response, ends the call
\* from inside the loop.
C25_HttpErrorRetriedLikeNetworkError ==
    [][\A cause \in {"http4xx", "http5xx", "HTTP send failed"} :
         /\ cl.pc = "send" => cl'.pc \in {"send", "final", "sleep", "loop"}
         /\ (cl.pc = "send" /\ cl'.pc # "send" /\ cl'.last_error.cause = cause
               /\ cl'.last_error.attempt = cl.attempt) =>
               /\ cl'.last_error = Err("SttFailed", cause, cl.attempt)
               /\ cl'.attempt = cl.attempt + 1
               /\ cl'.pc = (IF cl.attempt + 1 < ccfg.max_retry THEN "sleep" ELSE "loop")
               /\ cl'.sleeps = cl.sleeps + (IF cl.attempt + 1 < ccfg.max_retry THEN 1 ELSE 0)
               /\ sent' = sent
         /\ (cl.pc = "sleep" /\ cl.last_error.cause = cause /\ cl'.pc # "sleep") =>
               cl'.pc = "loop"
         /\ (cl.pc = "loop" /\ cl.last_error.cause = cause /\ cl'.pc # "loop"
               /\ cl.attempt < ccfg.max_retry /\ gen = cl.run_generation) =>
               cl'.tries = cl.tries + 1]_vars

\* a first attempt was answered 4xx, the call slept and its second attempt
\* is on the wire
C25_Witness ==
    /\ cl.pc = "send" /\ cl.tries = 2 /\ cl.sleeps = 1 /\ Len(sent) - cl.sent0 = 2
    /\ cl.last_error = Err("SttFailed", "http4xx", 0)
    /\ cl.cancelAt = "none"

(* ------------------------- C26: queue_wait_ms -------------------------- *)
\* C26 (as stated): the queue_wait_ms a worker computes for a job is the
\* time at which it dequeued the job minus the job's enqueue_at.
C26_QueueWaitIsDequeueMinusEnqueue ==
    [][\A w \in Workers :
         (wk[w].pc = "recv" /\ wk'[w].pc = "precheck") =>
             wk'[w].queue_wait_ms = now - wk'[w].job.enqueue_at]_vars

(* ------------------------- C27: runners and workers -------------------- *)
\* C27: a worker holds at most one job at a time and no job is held by two
\* workers; a runner invocation in progress was started by a worker on the
\* runner that worker built, so no runner runs two invocations at once and
\* at most num_workers invocations run at the same time.
C27_OneJobAndOwnRunnerPerWorker ==
    /\ \A w \in Workers :
         /\ wk[w].pc = "run" => (wk[w].runner = w /\ wk[w].job # NoJob)
         /\ wk[w].job # NoJob => Places(wk[w].job.owner) = 1
    /\ \A r \in Workers : Cardinality({w \in Workers : wk[w].pc = "run" /\ wk[w].runner = r}) <= 1
    /\ Cardinality({w \in Workers : wk[w].pc = "run"}) <= NumWorkers

\* every worker is inside its runner at the same time, on different jobs
C27_Witness ==
    /\ \A w \in Workers : wk[w].pc = "run" /\ wk[w].runner = w
    /\ \A v, w \in Workers : v # w => wk[v].job.owner # wk[w].job.owner

(* ------------------------- C28: the .srt file -------------------------- *)
\* C28: a transcribe call that returned SttFailed, SttCancelled, CryptoError
\* or InvalidSrt wrote no .srt file; a call that returned Ok wrote one: the
\* empty SRT when the response body was all ASCII whitespace, the parsed SRT
\* otherwise.
C28_FileWrittenOnlyOnOk ==
    cl.pc = "done" =>
        /\ cl.ret.kind \in {"SttFailed", "SttCancelled", "CryptoError", "InvalidSrt"} =>
               cl.wrote = "none"
        /\ cl.ret = Ok => cl.wrote = (IF cl.data = "ok_ws" THEN "empty" ELSE "srt")

\* a call whose first attempt failed and whose second was answered with a
\* whitespace body returned Ok and wrote the empty SRT
C28_Witness ==
    /\ cl.pc = "done" /\ cl.ret = Ok /\ cl.data = "ok_ws" /\ cl.wrote = "empty"
    /\ cl.tries = 2

(* ------------------------- C29: cancel_generation ---------------------- *)
\* C29: cancel_generation changes only in a cancel_inflight step, which adds
\* one to it and touches nothing else of the call in progress; a call during
\* which no cancel_inflight occurred does not return SttCancelled, however
\* many cancel_inflight calls completed before it took its snapshot.
C29_OnlyCancelInflightMovesGeneration ==
    /\ [][gen' # gen =>
            /\ gen' = gen + 1
            /\ cl'.pc = cl.pc /\ cl'.run_generation = cl.run_generation
            /\ cl'.ret = cl.ret /\ cl'.attempt = cl.attempt /\ sent' = sent]_vars
    /\ []((cl.pc = "done" /\ cl.cancelAt = "none") => cl.ret # SttCancelled)
    /\ []((cl.pc \notin {"idle", "done"} /\ cl.cancelAt = "none") => cl.run_generation = gen)

\* a cancel_inflight completed before a call; the call took its snapshot
\* after it, was not cancelled while running, and returned Ok
C29_Witness ==
    /\ cl.pc = "done" /\ cl.ret = Ok /\ cl.cancelAt = "none"
    /\ cl.run_generation = 1 /\ gen = 1 /\ cl.tries >= 1

(* ------------------------- C30: no cancellation in the server ---------- *)
\* C30: in the server as bind wires it, the cancellation set is empty in
\* every reachable state, and every job a worker dequeues passes the
\* pre-check and is handed to the runner.
C30_CancellationSetStaysEmpty ==
    /\ [](cancelled = {})
    /\ [][\A w \in Workers :
            (wk[w].pc = "precheck" /\ wk'[w] # wk[w]) =>
                (wk'[w].pc = "run" /\ wk'[w].job = wk[w].job)]_vars

\* both handlers' jobs were dequeued and are inside the runners
C30_Witness ==
    /\ cancelled = {}
    /\ \A h \in Handlers : \E w \in Workers : wk[w].pc = "run" /\ wk[w].job.owner = h

(* ------------------------- C31: encryption is per request -------------- *)
\* C31: a server that has an encryption key still admits a request that
\* does not carry x-encrypted: 1 and passes every check: the job it enqueues
\* holds the request body taken as plaintext (decoded when labelled opus);
\* and the body of every 200 response is wrapped exactly when the request
\* was flagged x-encrypted: 1.
C31_ResponseWrappedIffRequestFlagged ==
    /\ (Handled /\ cfg.enc /\ TheRequest.xenc # "1"
          /\ FirstFailingCheck(cfg, TheRequest) = "none") =>
          /\ Enqueued(1)
          /\ \A i \in 1..Len(jobq) :
                jobq[i].audio_data =
                    (IF TheRequest.comp = "opus" /\ TheRequest.body.plain.kind = "opus"
                       THEN Wav(1, 16000, 16, TheRequest.body.plain.ns * 320)
                       ELSE TheRequest.body.plain)
          /\ ~TheRequest.body.cipher
    /\ (Returned(1) /\ Status = 200) => (hd[1].resp.enc <=> TheRequest.xenc = "1")

\* a server with a key answered an unflagged plaintext request 200, with
\* the SRT left unwrapped
C31_Witness ==
    /\ cfg.enc /\ TheRequest.xenc # "1" /\ ~TheRequest.body.cipher
    /\ Returned(1) /\ Status = 200 /\ ~hd[1].resp.enc
    /\ hd[1].resp.srt.owner = 1

=============================================================================
